---------------------------- MODULE Spec2Model ----------------------------
(***************************************************************************)
(* Model of ui/gl/gl_detection.cpp (Desktop App Toolkit, namespace Ui::GL):*)
(* the crash-check sentinel file bracketing the OpenGL probe, the          *)
(* capability probe CheckCapabilities, the ForceDisable switch and the     *)
(* persisted ANGLE backend preference (ConfigureANGLE / ChangeANGLE).      *)
(*                                                                         *)
(* Files live on disk and survive a process; every other variable is a     *)
(* global, a function-local static or a local of one process and is reset  *)
(* when the process terminates and the application is started again.       *)
(***************************************************************************)
EXTENDS Naturals, Sequences, FiniteSets

VARIABLES
    openglCheckFile,   \* content of Integration::openglCheckFilePath(), or Absent
    angleBackendFile,  \* content of Integration::angleBackendFilePath(), or Absent
    angleBackendPath,  \* "empty" when the host gives no backend file path
    bugListResource,   \* whether ":/misc/gpu_driver_bug_list.json" is compiled in
    pc,                \* per process: position inside CheckCapabilities
    ForceDisabled,     \* per process: the global of line 31
    ResolvedANGLE,     \* per process: the global of line 34
    env,               \* per process: the two environment variables the file sets
    statics,           \* per process: function-local statics already initialized
    log,               \* per process: number of times each message was logged
    ctx,               \* per process: what the tester's context has answered so far
    result,            \* per process: Capabilities of the last returned call
    ret,               \* per process: how the last call handed control back
    calls,             \* per process: CheckCapabilities calls started
    angleOps,          \* per process: ConfigureANGLE / ChangeANGLE calls made
    lastIo,            \* per process: outcome of the last QFile open / remove
    crashedInProbe,    \* per process: the previous process died inside the bracket
    lastChange,        \* backend of the last effective ChangeANGLE, file untouched since
    lastBracket        \* how far the most recent probe got with lines 84-86

vars == <<openglCheckFile, angleBackendFile, angleBackendPath, bugListResource,
          pc, ForceDisabled, ResolvedANGLE, env, statics, log, ctx, result,
          ret, calls, angleOps, lastIo, crashedInProbe, lastChange,
          lastBracket>>

---------------------------------------------------------------------------
(* Bounds of the model. *)

\* CheckCapabilities calls one process may start.
MaxCalls == 2

\* ConfigureANGLE / ChangeANGLE calls one process may make.
MaxAngleOps == 3

(* Program constants. *)

\* f.read(32) in ConfigureANGLE.
ReadMax == 32

\* supported.alphaBufferSize() >= 8.
AlphaRequired == 8

---------------------------------------------------------------------------
(* Processes.  The application's single-instance policy lets one process  *)
(* run at a time; a second process exists only when that policy is broken.*)

Procs == {1, 2}

SingleInstance == {1}

---------------------------------------------------------------------------
(* Files. *)

Absent == <<"absent">>

\* CrashCheckStart writes the single byte "1".
CheckFileContent == <<"1">>

\* ANGLE enum.
ANGLE == {"Auto", "OpenGL", "D3D9", "D3D11", "D3D11on12"}

NameGL == <<"g", "l">>

NameD3D9 == <<"d", "3", "d", "9">>

NameD3D11 == <<"d", "3", "d", "1", "1">>

NameD3D11on12 == <<"d", "3", "d", "1", "1", "o", "n", "1", "2">>

\* An environment variable that is not set (qunsetenv).
Unset == << >>

\* QByteArray::startsWith(const char *).
StartsWith(bytes, prefix) ==
    /\ Len(bytes) >= Len(prefix)
    /\ SubSeq(bytes, 1, Len(prefix)) = prefix

\* QFile::read(maxSize): at most maxSize leading bytes.
Read(content, maxSize) ==
    IF Len(content) <= maxSize THEN content ELSE SubSeq(content, 1, maxSize)

\* Contents a user or another tool may leave in the backend file.
FileContents ==
    { << >>,
      NameGL, NameD3D9, NameD3D11, NameD3D11on12,
      <<"g", "l", "x">>,
      <<"d", "3", "d", "1">>,
      <<"d", "3", "d", "1", "1", "o", "n">>,
      <<"v", "k">>,
      <<"G", "L">> }

---------------------------------------------------------------------------
(* Logging. *)

Messages ==
    { "ForceDisabled", "UsingBugList", "NoWindow", "NotSupportedForWindow",
      "NoContext", "NoNPOT", "NoFramebuffers", "NoShaders", "NoLink",
      "ProfileES", "ProfileNone", "ProfileCore", "ProfileCompat",
      "Extensions", "Created", "CreatedNoAlpha",
      "AngleUnknown", "AngleWriteFailed" }

\* The logging state of one process: its initialized statics and its log.
Logging(p) == [st |-> statics[p], lg |-> log[p]]

\* LOG(x).
Log(L, m) == [L EXCEPT !.lg[m] = @ + 1]

\* LOG_ONCE(x): a block-scope static whose initializer logs.
LogOnce(L, m) ==
    IF m \in L.st THEN L ELSE Log([L EXCEPT !.st = @ \cup {m}], m)

SetLogging(p, L) ==
    /\ statics' = [statics EXCEPT ![p] = L.st]
    /\ log' = [log EXCEPT ![p] = L.lg]

---------------------------------------------------------------------------
(* Capabilities and the context under test. *)

NoCaps == [supported |-> FALSE, transparency |-> FALSE]

NoContext ==
    [valid |-> "?", npot |-> "?", fb |-> "?", shaders |-> "?", linked |-> "?",
     profile |-> "?", renderable |-> "?", alpha |-> 0]

YesNo(b) == IF b THEN "y" ELSE "n"

Profiles == {"NoProfile", "CoreProfile", "CompatibilityProfile"}

RenderableTypes == {"OpenGL", "OpenGLES"}

AlphaSizes == {0, 7, 8, 16}

\* bool LastCrashCheckFailed().
LastCrashCheckFailed == openglCheckFile # Absent

---------------------------------------------------------------------------
(* Initial state: a fresh install and freshly started processes. *)

NoEnv == [QT_OPENGL_BUGLIST |-> Unset, DESKTOP_APP_QT_ANGLE_PLATFORM |-> Unset]

InitProcesses ==
    /\ pc = [p \in Procs |-> "idle"]
    /\ ForceDisabled = [p \in Procs |-> FALSE]
    /\ ResolvedANGLE = [p \in Procs |-> "Auto"]
    /\ env = [p \in Procs |-> NoEnv]
    /\ statics = [p \in Procs |-> {}]
    /\ log = [p \in Procs |-> [m \in Messages |-> 0]]
    /\ ctx = [p \in Procs |-> NoContext]
    /\ result = [p \in Procs |-> NoCaps]
    /\ ret = [p \in Procs |-> "none"]
    /\ calls = [p \in Procs |-> 0]
    /\ angleOps = [p \in Procs |-> 0]
    /\ lastIo = [p \in Procs |-> "none"]
    /\ crashedInProbe = [p \in Procs |-> FALSE]

Init ==
    /\ openglCheckFile = Absent
    /\ angleBackendFile = Absent
    /\ angleBackendPath = "set"
    /\ bugListResource \in BOOLEAN
    /\ lastChange = "none"
    /\ lastBracket = "none"
    /\ InitProcesses

InitANGLE ==
    /\ openglCheckFile = Absent
    /\ angleBackendFile = Absent
    /\ angleBackendPath \in {"set", "empty"}
    /\ bugListResource = FALSE
    /\ lastChange = "none"
    /\ lastBracket = "none"
    /\ InitProcesses

\* Variables the probe never touches.
AngleState == <<angleBackendFile, ResolvedANGLE, angleOps, lastChange>>

\* What never changes on one machine and build.
Machine == <<angleBackendPath, bugListResource>>

---------------------------------------------------------------------------
(* The crash-check sentinel file. *)

\* A CrashCheckStart that opens the file and never leaves it on disk.
CheckFileNeverCreated(opened) == openglCheckFile

\* A CrashCheckStart whose failed open takes an existing file away.
CheckFileLostOnFailedOpen(opened) ==
    IF opened THEN CheckFileContent ELSE Absent

\* CrashCheckStart, lines 38-42: the file after f.open(WriteOnly) returned
\* `opened`; on success "1" is written (an existing file is overwritten).
CheckFileAfterStart(opened) ==
    IF opened THEN CheckFileContent ELSE openglCheckFile

\* A CrashCheckFinish that empties the file instead of removing it.
CheckFileTruncated(removed) ==
    IF removed THEN << >> ELSE openglCheckFile

\* A CrashCheckFinish that leaves the sentinel where it is.
CheckFileKept(removed) == openglCheckFile

\* CrashCheckFinish, line 193: the file after QFile::remove returned `removed`.
CheckFileAfterFinish(removed) ==
    IF removed THEN Absent ELSE openglCheckFile

\* What QFile::remove can return: never true for a file that does not exist.
RemoveOutcomes(file) == IF file = Absent THEN {FALSE} ELSE BOOLEAN

IoResult(ok) == IF ok THEN "ok" ELSE "failed"

---------------------------------------------------------------------------
(* CheckCapabilities, step by step. *)

\* `return caps;`
Return(p, caps) ==
    /\ pc' = [pc EXCEPT ![p] = "idle"]
    /\ result' = [result EXCEPT ![p] = caps]
    /\ ret' = [ret EXCEPT ![p] = "returned"]

Goto(p, label) ==
    /\ pc' = [pc EXCEPT ![p] = label]
    /\ UNCHANGED <<result, ret>>

\* A CheckCapabilities that does not look at ForceDisabled.
ForceDisabledIgnored(p) == FALSE

\* Line 48: if (ForceDisabled).
IsForceDisabled(p) == ForceDisabled[p]

\* Lines 53-60: the static BugListInited, initialized on the first pass.
InitBugList(L) ==
    IF "BugListInited" \in L.st THEN L
    ELSE LET M == [L EXCEPT !.st = @ \cup {"BugListInited"}]
         IN  IF bugListResource THEN Log(M, "UsingBugList") ELSE M

EnvAfterBugList(p) ==
    IF "BugListInited" \notin statics[p] /\ bugListResource
    THEN [env[p] EXCEPT !.QT_OPENGL_BUGLIST = <<"b", "u", "g", "s">>]
    ELSE env[p]

\* The widget argument: null or not, whether its window has a handle before
\* and after createWinId(), whether that handle supportsOpenGL().
Widgets ==
    { [given |-> FALSE, handle |-> FALSE, created |-> FALSE, opengl |-> FALSE],
      [given |-> TRUE, handle |-> FALSE, created |-> FALSE, opengl |-> FALSE],
      [given |-> TRUE, handle |-> FALSE, created |-> TRUE, opengl |-> TRUE],
      [given |-> TRUE, handle |-> FALSE, created |-> TRUE, opengl |-> FALSE],
      [given |-> TRUE, handle |-> TRUE, created |-> TRUE, opengl |-> FALSE],
      [given |-> TRUE, handle |-> TRUE, created |-> TRUE, opengl |-> TRUE] }

\* Lines 47-83: up to the construction of the tester widget.
CheckCapabilities(p) ==
    /\ pc[p] = "idle"
    /\ calls[p] < MaxCalls
    /\ calls' = [calls EXCEPT ![p] = @ + 1]
    /\ ctx' = [ctx EXCEPT ![p] = NoContext]
    /\ \E w \in Widgets :
        IF IsForceDisabled(p)
        THEN /\ SetLogging(p, LogOnce(Logging(p), "ForceDisabled"))
             /\ Return(p, NoCaps)
             /\ UNCHANGED env
        ELSE /\ env' = [env EXCEPT ![p] = EnvAfterBugList(p)]
             /\ IF w.given /\ ~w.created
                THEN /\ SetLogging(p, Log(InitBugList(Logging(p)), "NoWindow"))
                     /\ Return(p, NoCaps)
                ELSE IF w.given /\ ~w.opengl
                THEN /\ SetLogging(p, LogOnce(InitBugList(Logging(p)),
                                              "NotSupportedForWindow"))
                     /\ Return(p, NoCaps)
                ELSE /\ SetLogging(p, InitBugList(Logging(p)))
                     /\ Goto(p, "L84")
    /\ UNCHANGED <<openglCheckFile, ForceDisabled, lastIo, crashedInProbe,
                   AngleState, Machine, lastBracket>>

\* A CrashCheckStart whose failure to create the sentinel ends the probe.
ReturnsWhenNotOpened(opened) == IF opened THEN "L85" ELSE "idle"

\* Lines 84-85: CrashCheckStart() is void and grabFramebuffer() follows it
\* whether or not the file was opened.
AfterCrashCheckStart(opened) == "L85"

\* Line 84, CrashCheckStart() of lines 37-43.
CrashCheckStart(p) ==
    /\ pc[p] = "L84"
    /\ \E opened \in BOOLEAN :
        /\ openglCheckFile' = CheckFileAfterStart(opened)
        /\ lastIo' = [lastIo EXCEPT ![p] = IoResult(opened)]
        /\ Goto(p, AfterCrashCheckStart(opened))
    /\ lastBracket' = "open"
    /\ UNCHANGED <<ForceDisabled, env, statics, log, ctx, calls, crashedInProbe,
                   AngleState, Machine>>

\* Line 85: tester.grabFramebuffer() forces the context's initialization.  It
\* returns, or an exception leaves CheckCapabilities through lines 85-47 with
\* nothing on the way to catch it; a crash of the driver is Terminate.
GrabFramebuffer(p) ==
    /\ pc[p] = "L85"
    /\ \/ Goto(p, "L86")
       \/ /\ pc' = [pc EXCEPT ![p] = "idle"]
          /\ ret' = [ret EXCEPT ![p] = "threw"]
          /\ UNCHANGED result
    /\ UNCHANGED <<openglCheckFile, ForceDisabled, env, statics, log, ctx, calls,
                   lastIo, crashedInProbe, AngleState, Machine, lastBracket>>

\* CrashCheckFinish() of lines 192-194: line 86 of CheckCapabilities, and a
\* public function the application calls between probes.
CrashCheckFinish(p) ==
    /\ pc[p] \in {"L86", "idle"}
    /\ \E removed \in RemoveOutcomes(openglCheckFile) :
        /\ openglCheckFile' = CheckFileAfterFinish(removed)
        /\ lastIo' = [lastIo EXCEPT ![p] = IoResult(removed)]
        /\ lastBracket' = IF pc[p] # "L86" THEN lastBracket
                           ELSE IF removed \/ openglCheckFile = Absent
                           THEN "closed" ELSE "removeFailed"
    /\ IF pc[p] = "L86" THEN Goto(p, "L88") ELSE UNCHANGED <<pc, result, ret>>
    /\ UNCHANGED <<ForceDisabled, env, statics, log, ctx, calls, crashedInProbe,
                   AngleState, Machine>>

\* Lines 88-98: tester.context() is null, invalid or valid.
ContextCheck(p) ==
    /\ pc[p] = "L88"
    /\ \E v \in {"null", "invalid", "valid"} :
        /\ ctx' = [ctx EXCEPT ![p].valid = v]
        /\ IF v # "valid"
           THEN /\ SetLogging(p, LogOnce(Logging(p), "NoContext"))
                /\ Return(p, NoCaps)
           ELSE /\ Goto(p, "L99")
                /\ UNCHANGED <<statics, log>>
    /\ UNCHANGED <<openglCheckFile, ForceDisabled, env, calls, lastIo,
                   crashedInProbe, AngleState, Machine, lastBracket>>

\* A feature chain without its Framebuffers branch.
MissingFeatureNoFramebuffers(c) ==
    IF c.npot = "n" THEN "NoNPOT"
    ELSE IF c.shaders = "n" THEN "NoShaders"
    ELSE ""

\* Lines 101-110: the message of the first mandatory feature the context
\* lacks, "" when it has all three.
MissingFeature(c) ==
    IF c.npot = "n" THEN "NoNPOT"
    ELSE IF c.fb = "n" THEN "NoFramebuffers"
    ELSE IF c.shaders = "n" THEN "NoShaders"
    ELSE ""

\* Lines 99-110.
FeatureCheck(p) ==
    /\ pc[p] = "L99"
    /\ \E npot, fb, sh \in BOOLEAN :
        LET c == [ctx[p] EXCEPT !.npot = YesNo(npot), !.fb = YesNo(fb),
                                !.shaders = YesNo(sh)]
        IN  /\ ctx' = [ctx EXCEPT ![p] = c]
            /\ IF MissingFeature(c) # ""
               THEN /\ SetLogging(p, LogOnce(Logging(p), MissingFeature(c)))
                    /\ Return(p, NoCaps)
               ELSE /\ Goto(p, "L112")
                    /\ UNCHANGED <<statics, log>>
    /\ UNCHANGED <<openglCheckFile, ForceDisabled, env, calls, lastIo,
                   crashedInProbe, AngleState, Machine, lastBracket>>

\* Lines 111-126: LinkProgram of the test shaders.
ShaderLink(p) ==
    /\ pc[p] = "L112"
    /\ \E linked \in BOOLEAN :
        /\ ctx' = [ctx EXCEPT ![p].linked = YesNo(linked)]
        /\ IF ~linked
           THEN /\ SetLogging(p, LogOnce(Logging(p), "NoLink"))
                /\ Return(p, NoCaps)
           ELSE /\ Goto(p, "L128")
                /\ UNCHANGED <<statics, log>>
    /\ UNCHANGED <<openglCheckFile, ForceDisabled, env, calls, lastIo,
                   crashedInProbe, AngleState, Machine, lastBracket>>

\* A profile switch whose NoProfile case does not look at the renderable type.
ProfileMessageNoProfileRejected(profile, renderable) ==
    IF profile = "NoProfile" THEN "ProfileNone"
    ELSE IF profile = "CoreProfile" THEN "ProfileCore"
    ELSE "ProfileCompat"

\* Lines 129-144: the message of the profile switch.
ProfileMessage(profile, renderable) ==
    IF profile = "NoProfile"
    THEN (IF renderable = "OpenGLES" THEN "ProfileES" ELSE "ProfileNone")
    ELSE IF profile = "CoreProfile" THEN "ProfileCore"
    ELSE "ProfileCompat"

\* Lines 128-144.
ProfileCheck(p) ==
    /\ pc[p] = "L128"
    /\ \E profile \in Profiles, renderable \in RenderableTypes :
        /\ ctx' = [ctx EXCEPT ![p].profile = profile, ![p].renderable = renderable]
        /\ SetLogging(p, LogOnce(Logging(p), ProfileMessage(profile, renderable)))
        /\ IF ProfileMessage(profile, renderable) = "ProfileNone"
           THEN Return(p, NoCaps)
           ELSE Goto(p, "L146")
    /\ UNCHANGED <<openglCheckFile, ForceDisabled, env, calls, lastIo,
                   crashedInProbe, AngleState, Machine, lastBracket>>

\* A threshold test written with > for >=.
BuiltAboveThreshold(alpha) ==
    [supported |-> TRUE, transparency |-> alpha > AlphaRequired]

\* Lines 176-184: the record built from the negotiated alpha size.
Built(alpha) == [supported |-> TRUE, transparency |-> alpha >= AlphaRequired]

\* Lines 146-185: the static extensionsLogged, then the result.
BuildResult(p) ==
    /\ pc[p] = "L146"
    /\ \E alpha \in AlphaSizes :
        /\ ctx' = [ctx EXCEPT ![p].alpha = alpha]
        /\ SetLogging(p, LogOnce(LogOnce(Logging(p), "Extensions"),
                                 IF alpha >= AlphaRequired
                                 THEN "Created" ELSE "CreatedNoAlpha"))
        /\ Return(p, Built(alpha))
    /\ UNCHANGED <<openglCheckFile, ForceDisabled, env, calls, lastIo,
                   crashedInProbe, AngleState, Machine, lastBracket>>

\* ForceDisable(bool disable), lines 196-198.
ForceDisable(p) ==
    /\ pc[p] = "idle"
    /\ \E disable \in BOOLEAN :
        /\ ForceDisabled[p] # disable
        /\ ForceDisabled' = [ForceDisabled EXCEPT ![p] = disable]
    /\ UNCHANGED <<openglCheckFile, pc, env, statics, log, ctx, result, ret,
                   calls, lastIo, crashedInProbe, AngleState, Machine, lastBracket>>

\* Positions between CrashCheckStart() and the end of CrashCheckFinish().
InBracket == {"L85", "L86"}

\* The process ends at any point (a driver crash inside grabFramebuffer, an
\* uncaught exception, a normal exit) and the application is started again:
\* globals and statics start over, the files stay.
Terminate(p) ==
    /\ pc' = [pc EXCEPT ![p] = "idle"]
    /\ ForceDisabled' = [ForceDisabled EXCEPT ![p] = FALSE]
    /\ ResolvedANGLE' = [ResolvedANGLE EXCEPT ![p] = "Auto"]
    /\ env' = [env EXCEPT ![p] = NoEnv]
    /\ statics' = [statics EXCEPT ![p] = {}]
    /\ log' = [log EXCEPT ![p] = [m \in Messages |-> 0]]
    /\ ctx' = [ctx EXCEPT ![p] = NoContext]
    /\ result' = [result EXCEPT ![p] = NoCaps]
    /\ ret' = [ret EXCEPT ![p] = "none"]
    /\ calls' = [calls EXCEPT ![p] = 0]
    /\ angleOps' = [angleOps EXCEPT ![p] = 0]
    /\ lastIo' = [lastIo EXCEPT ![p] = "none"]
    /\ crashedInProbe' = [crashedInProbe EXCEPT
                            ![p] = pc[p] \in InBracket /\ lastIo[p] = "ok"]
    /\ UNCHANGED <<openglCheckFile, angleBackendFile, lastChange, Machine, lastBracket>>

---------------------------------------------------------------------------
(* The probe and its guard, one process at a time. *)

Next ==
    \E p \in SingleInstance :
        \/ CheckCapabilities(p)
        \/ CrashCheckStart(p)
        \/ GrabFramebuffer(p)
        \/ CrashCheckFinish(p)
        \/ ContextCheck(p)
        \/ FeatureCheck(p)
        \/ ShaderLink(p)
        \/ ProfileCheck(p)
        \/ BuildResult(p)
        \/ ForceDisable(p)
        \/ Terminate(p)

Spec == Init /\ [][Next]_vars

----------------------------------------------------------------------------
(* Two processes of the application probing with one sentinel path and no
   lock between them. *)

\* Calls of CheckCapabilities the two running processes may have made.
MaxRaceCalls == 2

CheckCapabilitiesRace(p) ==
    /\ calls[1] + calls[2] < MaxRaceCalls
    /\ CheckCapabilities(p)

NextRace ==
    \E p \in Procs :
        \/ CheckCapabilitiesRace(p)
        \/ CrashCheckStart(p)
        \/ GrabFramebuffer(p)
        \/ CrashCheckFinish(p)
        \/ ContextCheck(p)
        \/ FeatureCheck(p)
        \/ ShaderLink(p)
        \/ ProfileCheck(p)
        \/ BuildResult(p)
        \/ Terminate(p)

SpecRace == Init /\ [][NextRace]_vars

---------------------------------------------------------------------------
(* The ANGLE backend preference (Q_OS_WIN). *)

\* The check(...) calls with the two overlapping names in the other order.
ChecksLongNameFirst ==
    << [name |-> NameGL, angle |-> "OpenGL"],
       [name |-> NameD3D9, angle |-> "D3D9"],
       [name |-> NameD3D11on12, angle |-> "D3D11on12"],
       [name |-> NameD3D11, angle |-> "D3D11"] >>

\* Lines 219-222: the check(...) calls in the order they are made.
Checks ==
    << [name |-> NameGL, angle |-> "OpenGL"],
       [name |-> NameD3D9, angle |-> "D3D9"],
       [name |-> NameD3D11, angle |-> "D3D11"],
       [name |-> NameD3D11on12, angle |-> "D3D11on12"] >>

\* A check that accepts only bytes equal to the whole name.
CheckWholeToken(st, bytes, c) ==
    IF bytes = c.name
    THEN [angle |-> c.angle, directive |-> c.name]
    ELSE st

\* Lines 213-218: the lambda check(backend, angle) on the bytes read.
Check(st, bytes, c) ==
    IF StartsWith(bytes, c.name)
    THEN [angle |-> c.angle, directive |-> c.name]
    ELSE st

RECURSIVE RunChecks(_, _, _)
RunChecks(st, bytes, cs) ==
    IF cs = << >> THEN st
    ELSE RunChecks(Check(st, bytes, Head(cs)), bytes, Tail(cs))

\* What f.open(ReadOnly) can return: never true for a file that does not exist.
ReadOpenOutcomes(file) == IF file = Absent THEN {FALSE} ELSE BOOLEAN

\* What f.open(WriteOnly) and remove() can return with an empty path: false.
WriteOpenOutcomes == IF angleBackendPath = "empty" THEN {FALSE} ELSE BOOLEAN

\* Lines 203-211: ResolvedANGLE and the directive when the bytes are checked.
\* qunsetenv has run; ResolvedANGLE is what the process held before the call.
BeforeChecks(p) == [angle |-> ResolvedANGLE[p], directive |-> Unset]

\* void ConfigureANGLE(), lines 202-227.
ConfigureANGLE(p) ==
    /\ pc[p] = "idle"
    /\ angleOps[p] < MaxAngleOps
    /\ angleOps' = [angleOps EXCEPT ![p] = @ + 1]
    /\ IF angleBackendPath = "empty"
       THEN /\ env' = [env EXCEPT ![p].DESKTOP_APP_QT_ANGLE_PLATFORM = Unset]
            /\ UNCHANGED <<ResolvedANGLE, log, lastIo>>
       ELSE \E opened \in ReadOpenOutcomes(angleBackendFile) :
            /\ lastIo' = [lastIo EXCEPT ![p] = IoResult(opened)]
            /\ IF ~opened
               THEN /\ env' = [env EXCEPT ![p].DESKTOP_APP_QT_ANGLE_PLATFORM = Unset]
                    /\ UNCHANGED <<ResolvedANGLE, log>>
               ELSE LET bytes == Read(angleBackendFile, ReadMax)
                        st == RunChecks(BeforeChecks(p), bytes, Checks)
                    IN  /\ ResolvedANGLE' = [ResolvedANGLE EXCEPT ![p] = st.angle]
                        /\ env' = [env EXCEPT
                              ![p].DESKTOP_APP_QT_ANGLE_PLATFORM = st.directive]
                        /\ log' = [log EXCEPT ![p] =
                              IF st.angle = "Auto"
                              THEN [@ EXCEPT !["AngleUnknown"] = @ + 1] ELSE @]
    /\ UNCHANGED <<openglCheckFile, angleBackendFile, lastChange, pc,
                   ForceDisabled, statics, ctx, result, ret, calls,
                   crashedInProbe, Machine, lastBracket>>

\* Lines 241-244: the token written for a backend.
Token(backend) ==
    IF backend = "D3D9" THEN NameD3D9
    ELSE IF backend = "D3D11" THEN NameD3D11
    ELSE IF backend = "D3D11on12" THEN NameD3D11on12
    ELSE NameGL

\* A ChangeANGLE that also switches the running process to the backend.
ResolvedSwitchedByChange(p, backend) == [ResolvedANGLE EXCEPT ![p] = backend]

\* Lines 229-247 hold no assignment to ResolvedANGLE.
ResolvedAfterChange(p, backend) == ResolvedANGLE

\* void ChangeANGLE(ANGLE backend), lines 229-247.
ChangeANGLE(p, backend) ==
    /\ pc[p] = "idle"
    /\ angleOps[p] < MaxAngleOps
    /\ angleOps' = [angleOps EXCEPT ![p] = @ + 1]
    /\ IF backend = "Auto"
       THEN \E removed \in RemoveOutcomes(angleBackendFile) \cap WriteOpenOutcomes :
            /\ angleBackendFile' = IF removed THEN Absent ELSE angleBackendFile
            /\ lastIo' = [lastIo EXCEPT ![p] = IoResult(removed)]
            /\ lastChange' = IF removed \/ angleBackendFile = Absent
                             THEN backend ELSE "none"
            /\ UNCHANGED log
       ELSE \E opened \in WriteOpenOutcomes :
            /\ lastIo' = [lastIo EXCEPT ![p] = IoResult(opened)]
            /\ IF ~opened
               THEN /\ log' = [log EXCEPT ![p]["AngleWriteFailed"] = @ + 1]
                    /\ lastChange' = "none"
                    /\ UNCHANGED angleBackendFile
               ELSE /\ angleBackendFile' = Token(backend)
                    /\ lastChange' = backend
                    /\ UNCHANGED log
    /\ ResolvedANGLE' = ResolvedAfterChange(p, backend)
    /\ UNCHANGED <<openglCheckFile, pc, ForceDisabled, env,
                   statics, ctx, result, ret, calls, crashedInProbe, Machine, lastBracket>>

\* The user, or another tool, rewrites or deletes the backend file.
EditBackendFile ==
    /\ angleBackendPath = "set"
    /\ \E c \in FileContents \cup {Absent} :
        /\ c # angleBackendFile
        /\ angleBackendFile' = c
    /\ lastChange' = "none"
    /\ UNCHANGED <<openglCheckFile, pc, ForceDisabled, ResolvedANGLE, env,
                   statics, log, ctx, result, ret, calls, angleOps, lastIo,
                   crashedInProbe, Machine, lastBracket>>

\* ANGLE CurrentANGLE(), lines 249-251.
CurrentANGLE(p) == ResolvedANGLE[p]

\* The process-wide directive DESKTOP_APP_QT_ANGLE_PLATFORM.
Directive(p) == env[p].DESKTOP_APP_QT_ANGLE_PLATFORM

NextANGLE ==
    \/ \E p \in SingleInstance :
        \/ ConfigureANGLE(p)
        \/ \E backend \in ANGLE : ChangeANGLE(p, backend)
        \/ Terminate(p)
    \/ EditBackendFile

SpecANGLE == InitANGLE /\ [][NextANGLE]_vars

---------------------------------------------------------------------------
(* Properties of the crash guard and the probe, checked under Spec. *)

\* The last CheckCapabilities call of p went through the bracket of lines
\* 84-86 and returned.
ProbedAndReturned(p) ==
    /\ pc[p] = "idle"
    /\ ret[p] = "returned"
    /\ ctx[p].valid # "?"

\* C1: with one probe in flight at most, when a process whose CrashCheckStart
\* created the sentinel terminates before CrashCheckFinish has run, the next
\* process starts with LastCrashCheckFailed() true; and once that next process
\* has run a CheckCapabilities call through the whole bracket, with the remove
\* of CrashCheckFinish succeeding, LastCrashCheckFailed() is false.
CrashDetectedAcrossRestart ==
    [][\A p \in SingleInstance :
        /\ (Terminate(p) /\ pc[p] \in InBracket /\ lastIo[p] = "ok")
              => LastCrashCheckFailed'
        /\ (crashedInProbe'[p] /\ ProbedAndReturned(p)' /\ lastIo'[p] = "ok")
              => ~LastCrashCheckFailed']_vars

CrashDetectedThenCleared ==
    /\ crashedInProbe[1]
    /\ ProbedAndReturned(1)
    /\ lastIo[1] = "ok"
    /\ ~LastCrashCheckFailed

\* C2 (as claimed): whenever a CheckCapabilities call that reached
\* CrashCheckStart hands control back to its caller, by a return or by an
\* exception of the context creation, and no storage operation failed, the
\* sentinel is absent.
GuardReleasedOnEveryExit ==
    \A p \in SingleInstance :
        (/\ pc[p] = "idle"
         /\ ProbedAndReturned(p) \/ ret[p] = "threw"
         /\ lastIo[p] = "ok")
            => ~LastCrashCheckFailed

\* C3: a CrashCheckStart whose open succeeds leaves the sentinel present and a
\* CrashCheckFinish whose remove succeeds leaves it absent, so any number of
\* begin/end pairs ends with LastCrashCheckFailed() false; CrashCheckStart on
\* a present sentinel leaves it present and CrashCheckFinish on an absent one
\* leaves it absent, whatever the storage answers.
IdempotentGuard ==
    [][\A p \in SingleInstance :
        /\ (CrashCheckStart(p) /\ (lastIo'[p] = "ok" \/ LastCrashCheckFailed))
              => LastCrashCheckFailed'
        /\ (CrashCheckFinish(p) /\ (lastIo'[p] = "ok" \/ ~LastCrashCheckFailed))
              => ~LastCrashCheckFailed']_vars

\* Two calls of one process went through the bracket (each left its own
\* one-time diagnostic) and the sentinel is absent.
TwoBracketsSentinelAbsent ==
    /\ {"NoContext", "NoNPOT"} \subseteq statics[1]
    /\ ProbedAndReturned(1)
    /\ lastIo[1] = "ok"
    /\ ~LastCrashCheckFailed

\* C4: a CheckCapabilities call made while ForceDisabled is true returns
\* {supported:false, transparency:false} at once: it never reaches
\* CrashCheckStart or CrashCheckFinish, performs no storage operation and
\* leaves the sentinel file as it was.
ForceDisableShortCircuits ==
    [][\A p \in SingleInstance :
        (CheckCapabilities(p) /\ ForceDisabled[p])
            => /\ pc'[p] = "idle"
               /\ ret'[p] = "returned"
               /\ result'[p] = NoCaps
               /\ UNCHANGED <<openglCheckFile, lastIo>>]_vars

\* A force-disabled call returned while the sentinel of a crashed probe was
\* on disk, and the sentinel is still there.
ForceDisabledCallKeptSentinel ==
    /\ ForceDisabled[1]
    /\ "ForceDisabled" \in statics[1]
    /\ pc[1] = "idle"
    /\ ret[1] = "returned"
    /\ ctx[1].valid = "?"
    /\ crashedInProbe[1]
    /\ LastCrashCheckFailed

\* C10: when the created context lacks any one of NPOT textures, framebuffers
\* and shaders, the call has returned {supported:false}: it does not go on to
\* the shader link, the profile or the alpha size.
FeatureGating ==
    \A p \in SingleInstance :
        ("n" \in {ctx[p].npot, ctx[p].fb, ctx[p].shaders})
            => /\ pc[p] = "idle"
               /\ ret[p] = "returned"
               /\ ~result[p].supported

\* Only the framebuffers are missing and the call returned.
OnlyFramebuffersMissing ==
    /\ ctx[1].npot = "y"
    /\ ctx[1].fb = "n"
    /\ ctx[1].shaders = "y"
    /\ ret[1] = "returned"
    /\ result[1] = NoCaps

---------------------------------------------------------------------------
(* Properties of the backend preference, checked under SpecANGLE. *)

KnownNames == {NameGL, NameD3D9, NameD3D11, NameD3D11on12}

\* The file exists, is not empty and starts with no known backend name.
UnknownToken(file) ==
    /\ file # Absent
    /\ file # << >>
    /\ \A n \in KnownNames : ~StartsWith(file, n)

\* C5: for every backend b other than Auto, a ChangeANGLE(b) that wrote the
\* file followed by a ConfigureANGLE() that opened it yields
\* CurrentANGLE() = b, whatever the file and ResolvedANGLE held before.
BackendRoundTrip ==
    [][\A p \in SingleInstance :
        (/\ ConfigureANGLE(p)
         /\ lastChange \in ANGLE \ {"Auto"}
         /\ lastIo'[p] = "ok")
            => CurrentANGLE(p)' = lastChange]_vars

\* The third backend operation of the process resolved D3D11on12, the name
\* that has another known name as a prefix.
RoundTripOverlappingName ==
    /\ lastChange = "D3D11on12"
    /\ CurrentANGLE(1) = "D3D11on12"
    /\ Directive(1) = NameD3D11on12
    /\ angleOps[1] = MaxAngleOps

\* C6 (as claimed): ChangeANGLE(Auto) followed by ConfigureANGLE() yields
\* CurrentANGLE() = Auto with the preference file gone.
ResetToAutomatic ==
    [][\A p \in SingleInstance :
        (ConfigureANGLE(p) /\ lastChange = "Auto")
            => /\ CurrentANGLE(p)' = "Auto"
               /\ angleBackendFile' = Absent]_vars

\* C7 (as claimed): a ConfigureANGLE() that reads a non-empty token with no
\* known name as a prefix ends with CurrentANGLE() = Auto and logs exactly one
\* warning, whatever ResolvedANGLE held before.
UnknownTokenMeansAuto ==
    [][\A p \in SingleInstance :
        (/\ ConfigureANGLE(p)
         /\ UnknownToken(angleBackendFile)
         /\ lastIo'[p] = "ok")
            => /\ CurrentANGLE(p)' = "Auto"
               /\ log'[p]["AngleUnknown"] = log[p]["AngleUnknown"] + 1]_vars

\* C8 (as claimed): a ConfigureANGLE() that finds the preference file absent
\* or empty ends with CurrentANGLE() = Auto, the directive unset and no
\* warning logged.
AbsentOrEmptyMeansAuto ==
    [][\A p \in SingleInstance :
        (ConfigureANGLE(p) /\ angleBackendFile \in {Absent, << >>})
            => /\ CurrentANGLE(p)' = "Auto"
               /\ Directive(p)' = Unset
               /\ log'[p] = log[p]]_vars

\* C9: ChangeANGLE(b) leaves CurrentANGLE() and the environment of the process
\* as they were, for every b; CurrentANGLE() of a running process changes
\* only in ConfigureANGLE().
ChangeOnlyTouchesFile ==
    [][\A p \in SingleInstance :
        /\ (\E b \in ANGLE : ChangeANGLE(p, b))
              => UNCHANGED <<ResolvedANGLE, env>>
        /\ (ResolvedANGLE'[p] # ResolvedANGLE[p])
              => ConfigureANGLE(p) \/ Terminate(p)]_vars

\* A backend was chosen with ChangeANGLE and the process still runs on
\* another one.
ChangeNotYetVisible ==
    /\ lastChange = "D3D9"
    /\ CurrentANGLE(1) = "D3D11"
    /\ Directive(1) = NameD3D11

---------------------------------------------------------------------------
(* Properties of the probe's result, checked under Spec. *)

\* C11: a returned result with supported = true has transparency = true
\* exactly when the negotiated alpha buffer size is at least 8; a returned
\* result with supported = false has transparency = false.
TransparencyThreshold ==
    \A p \in SingleInstance :
        (pc[p] = "idle" /\ ret[p] = "returned")
            => /\ result[p].supported
                    => (result[p].transparency <=> ctx[p].alpha >= 8)
               /\ ~result[p].supported => ~result[p].transparency

\* A supported result at the threshold itself.
TransparentAtEight ==
    /\ pc[1] = "idle"
    /\ ret[1] = "returned"
    /\ ctx[1].alpha = 8
    /\ result[1] = [supported |-> TRUE, transparency |-> TRUE]

\* C17: a returned call whose context was valid, had the three features and
\* linked the test shader is supported exactly when the negotiated format is
\* core profile, compatibility profile, or no profile with the OpenGL ES
\* renderable type.
ProfileClassification ==
    \A p \in SingleInstance :
        (pc[p] = "idle" /\ ret[p] = "returned" /\ ctx[p].linked = "y")
            => (result[p].supported <=>
                    \/ ctx[p].profile \in {"CoreProfile", "CompatibilityProfile"}
                    \/ /\ ctx[p].profile = "NoProfile"
                       /\ ctx[p].renderable = "OpenGLES")

\* No profile, OpenGL ES: accepted.
NoProfileEmbeddedAccepted ==
    /\ pc[1] = "idle"
    /\ ret[1] = "returned"
    /\ ctx[1].profile = "NoProfile"
    /\ ctx[1].renderable = "OpenGLES"
    /\ result[1].supported


\* The Capabilities that lines 88-185 derive from the answers of the context,
\* whatever happened to the sentinel file.
ExpectedCaps(c) ==
    IF /\ c.valid = "valid"
       /\ c.npot = "y" /\ c.fb = "y" /\ c.shaders = "y"
       /\ c.linked = "y"
       /\ \/ c.profile \in {"CoreProfile", "CompatibilityProfile"}
          \/ c.profile = "NoProfile" /\ c.renderable = "OpenGLES"
    THEN [supported |-> TRUE, transparency |-> c.alpha >= 8]
    ELSE [supported |-> FALSE, transparency |-> FALSE]

\* The probe goes on after either guard call, failed or not, and its result
\* depends on the context's answers only.
DetectionNotBlocked(p) ==
    /\ CrashCheckStart(p) => pc'[p] = "L85"
    /\ (CrashCheckFinish(p) /\ pc[p] = "L86") => pc'[p] = "L88"
    /\ (pc'[p] = "idle" /\ ret'[p] = "returned" /\ ctx'[p].valid # "?")
            => result'[p] = ExpectedCaps(ctx'[p])

\* C12 as stated: storage failures of the guard never block detection, and a
\* failed create in CrashCheckStart leaves the sentinel absent.
FailedCreateLeavesAbsent ==
    [][\A p \in SingleInstance :
        /\ DetectionNotBlocked(p)
        /\ (CrashCheckStart(p) /\ lastIo'[p] = "failed")
                => ~LastCrashCheckFailed']_vars

\* C12: storage failures of the guard never block detection: after a failed
\* create or a failed remove CheckCapabilities runs every later step and
\* returns the Capabilities the context's answers determine; a failed create
\* or remove leaves the sentinel as it found it, so it is absent after a
\* failed create only when it was absent before.
StorageFailureSwallowed ==
    [][\A p \in SingleInstance :
        /\ DetectionNotBlocked(p)
        /\ ((CrashCheckStart(p) \/ CrashCheckFinish(p)) /\ lastIo'[p] = "failed")
                => openglCheckFile' = openglCheckFile]_vars

FailedCreateOverStaleSentinel ==
    /\ pc[1] = "L85"
    /\ lastIo[1] = "failed"
    /\ LastCrashCheckFailed

\* ---------------------------------------------------------------------
\* Failures of the backend file, checked under SpecANGLE.

\* C13: for every backend, Auto included, a ChangeANGLE whose storage
\* operation fails (the open for writing, or the removal of an existing file
\* for Auto) leaves the backend file as it was and logs one warning.
ChangeFailureLogged ==
    [][\A p \in SingleInstance, backend \in ANGLE :
        (/\ ChangeANGLE(p, backend)
         /\ lastIo'[p] = "failed"
         /\ backend = "Auto" => angleBackendFile # Absent)
            => /\ angleBackendFile' = angleBackendFile
               /\ log'[p]["AngleWriteFailed"] = log[p]["AngleWriteFailed"] + 1]_vars

\* ---------------------------------------------------------------------
\* Extent of the bracket, checked under Spec.

\* Positions of CheckCapabilities after CrashCheckFinish(): lines 88-185.
AfterBracket == {"L88", "L99", "L112", "L128", "L146"}

\* C14: with working storage the sentinel is absent during every step after
\* CrashCheckFinish() (context check, features, shader link, profile, logging
\* and result), entering CheckCapabilities does not touch it, and a process
\* that ends in one of those later steps leaves no sentinel, so the next run's
\* LastCrashCheckFailed() reports no crash.
BracketCoversContextCreationOnly ==
    [][\A p \in SingleInstance :
        /\ (pc'[p] \in AfterBracket /\ lastIo'[p] = "ok") => ~LastCrashCheckFailed'
        /\ CheckCapabilities(p) => openglCheckFile' = openglCheckFile
        /\ (Terminate(p) /\ pc[p] \in AfterBracket /\ lastIo[p] = "ok")
                => /\ ~LastCrashCheckFailed'
                   /\ ~crashedInProbe'[p]]_vars

ProfileInspectionOutsideBracket ==
    /\ pc[1] = "L128"
    /\ lastIo[1] = "ok"
    /\ lastBracket = "closed"
    /\ ~LastCrashCheckFailed

\* C15 as stated: whenever the sentinel exists at the moment a probe starts,
\* the most recent earlier probe executed CrashCheckStart() and never executed
\* its CrashCheckFinish().
SentinelMeansEndNeverRan ==
    \A p \in SingleInstance :
        (pc[p] = "L84" /\ LastCrashCheckFailed) => lastBracket = "open"

\* C15: with one probe in flight at most, whenever the sentinel exists at the
\* moment a probe starts, the most recent earlier probe executed
\* CrashCheckStart() and either never executed its CrashCheckFinish() or its
\* CrashCheckFinish() failed to remove the sentinel.
SentinelMeansBracketNotClosed ==
    \A p \in SingleInstance :
        (pc[p] = "L84" /\ LastCrashCheckFailed)
            => lastBracket \in {"open", "removeFailed"}

ProbeStartsAfterFailedRemove ==
    /\ pc[1] = "L84"
    /\ LastCrashCheckFailed
    /\ lastBracket = "removeFailed"

\* ---------------------------------------------------------------------
\* Resolution of the backend file, checked under SpecANGLE.

\* The backend a content names by prefix, the longer of two overlapping names
\* taking precedence.
NamedByPrefix(file) ==
    IF StartsWith(file, NameD3D11on12) THEN "D3D11on12"
    ELSE IF StartsWith(file, NameD3D11) THEN "D3D11"
    ELSE IF StartsWith(file, NameD3D9) THEN "D3D9"
    ELSE IF StartsWith(file, NameGL) THEN "OpenGL"
    ELSE "Auto"

\* C16: a ConfigureANGLE() of a process still at Auto that opened the file
\* resolves the content by known-name prefix: "d3d11on12..." gives D3D11on12,
\* "d3d11..." that is not "d3d11on12..." gives D3D11, "d3d9..." gives D3D9,
\* "gl..." gives OpenGL; the directive is then the canonical name of the
\* resolved backend, and unset when no name matched.
PrefixResolution ==
    [][\A p \in SingleInstance :
        (/\ ConfigureANGLE(p)
         /\ ResolvedANGLE[p] = "Auto"
         /\ angleBackendFile # Absent
         /\ lastIo'[p] = "ok")
            => /\ CurrentANGLE(p)' = NamedByPrefix(angleBackendFile)
               /\ Directive(p)' = IF CurrentANGLE(p)' = "Auto" THEN Unset
                                  ELSE Token(CurrentANGLE(p)')]_vars

PartialLongNameResolvesD3D11 ==
    /\ angleBackendFile = <<"d", "3", "d", "1", "1", "o", "n">>
    /\ lastIo[1] = "ok"
    /\ CurrentANGLE(1) = "D3D11"
    /\ Directive(1) = NameD3D11

\* C19: after every return of ConfigureANGLE(), over any sequence of
\* ChangeANGLE, file edits and repeated ConfigureANGLE calls in one process,
\* the directive is set exactly when CurrentANGLE() is not Auto, and when set
\* it is the canonical token of CurrentANGLE().
DirectiveAgreesWithResolved ==
    [][\A p \in SingleInstance :
        ConfigureANGLE(p)
            => /\ Directive(p)' # Unset <=> CurrentANGLE(p)' # "Auto"
               /\ Directive(p)' # Unset
                    => Directive(p)' = Token(CurrentANGLE(p)')]_vars

\* ---------------------------------------------------------------------
\* Diagnostics of the probe, checked under Spec.

\* The failure diagnostics of CheckCapabilities and its extensions block.
OneTimeDiagnostics ==
    { "ForceDisabled", "NoWindow", "NotSupportedForWindow", "NoContext",
      "NoNPOT", "NoFramebuffers", "NoShaders", "NoLink", "ProfileNone",
      "Extensions" }

\* C20: across any number of CheckCapabilities calls in one process each
\* failure diagnostic and the renderer/vendor/version/extensions block is
\* logged at most once.
DiagnosticsLoggedOnce ==
    \A p \in SingleInstance, m \in OneTimeDiagnostics : log[p][m] <= 1

\* ---------------------------------------------------------------------
\* Two probes at once, checked under SpecRace.

\* C18: nothing serializes two probes, so the sentinel of a process that is
\* inside its bracket can disappear; it disappears only by a
\* CrashCheckFinish() of the other process, never by a step of the process
\* itself or by a process ending, and a process that ends inside its bracket
\* leaves the file as it is at that moment: present when no other process
\* interfered, absent (an unreported crash) when the other one removed it.
SentinelLostOnlyToOtherProcess ==
    [][\A p \in Procs :
        /\ (/\ pc[p] \in InBracket /\ pc'[p] \in InBracket
            /\ lastIo[p] = "ok"
            /\ LastCrashCheckFailed /\ ~LastCrashCheckFailed')
                => \E q \in Procs \ {p} : CrashCheckFinish(q)
        /\ Terminate(p) => openglCheckFile' = openglCheckFile]_vars

OtherProcessRemovedSentinel ==
    /\ pc[2] = "L85"
    /\ lastIo[2] = "ok"
    /\ pc[1] = "L88"
    /\ lastIo[1] = "ok"
    /\ ~LastCrashCheckFailed
===========================================================================
